---- MODULE Spec2Model ----
(***************************************************************************)
(* Model of external_sync_standalone.py: the incremental, cursor based     *)
(* one-way export of four CRCON tables (log_lines, player_sessions,        *)
(* player_stats, map_history) to an external HTTP endpoint.                *)
(*                                                                         *)
(* A table is a sequence of rows; the primary key of a row is its index,   *)
(* so ids are assigned in increasing order and tables are append-only.     *)
(* A timestamp column is NULL or the one timestamp Time.                    *)
(***************************************************************************)
EXTENDS Integers, Sequences, FiniteSets, TLC

\* ------------------------------------------------------------------ bounds
\* Total number of rows the database ever holds (all four tables together).
MaxRows == 3
\* The same where the queries of a run can raise.
MaxRowsQueriesRaising == 2
\* Rows the database holds, all tables together, in RetrySpec.
MaxRowsRetry == 2
\* Rows the database holds, all tables together, in CorruptFileSpec.
MaxRowsCorruptFile == 2
\* Rows the database holds, all tables together, in OldFormatSpec.
MaxRowsOldFormat == 2
\* Rows the database holds, all tables together, in OverlapSpec.
MaxRowsOverlap == 2
\* Rows the database holds, all tables together, in RowRaisesSpec.
MaxRowsRowRaises == 2
\* Rows the database holds, all tables together, in SaveFailsSpec.
MaxRowsSaveFails == 2
\* Rows the database holds, all tables together, in MapIdsSpec.
MaxRowsMapIds == 2

\* ------------------------------------------------------- configuration
BATCH_SIZE_LOG_LINES == 2
BATCH_SIZE_PLAYER_STATS == 2
BATCH_SIZE_MAPS == 2
BATCH_SIZE_PLAYER_SESSIONS == 2
EXPORT_ONLY_CLOSED_SESSIONS == TRUE
ENABLED_SERVERS == {1}
MAX_RETRIES == 2

\* Server numbers that occur in the database: 1 is enabled, 2 is not.
Servers == {1, 2}
Tables == {"log_lines", "player_sessions", "player_stats", "map_history"}
\* SQL NULL / Python None, and the value of a timestamp that is set.
NULL == "NULL"
Time == "2024-01-01T00:00:00"

SERVER_NAMES(server_number) ==
    IF server_number = 1 THEN "Server-DE-01" ELSE "Server-unmapped"

\* ------------------------------------------------------------------ state
VARIABLES
    log_lines,        \* table log_lines: rows [server, type]
    player_sessions,  \* table player_sessions: rows [server_number, end]
    map_history,      \* table map_history: rows [server_number, end]
    player_stats,     \* table player_stats: rows [map_id]
    file,             \* SYNC_STATE_FILE: [exists, valid, content]
    pc,               \* position of the sync process
    state,            \* prepare_data_for_export: the loaded state
    data,             \* the assembled payload
    new_state,        \* the prospective state handed to send_to_external_db
    attempt,          \* send_to_external_db: loop variable
    posts,            \* requests.post calls issued by the current run
    outcome,          \* how the last finished run of sync_data ended
    qfail,            \* tables whose query raised in the current run
    fetched,          \* ids returned by cursor.fetchall() per table, current run
    delivered,        \* ids of the records of every payload acknowledged so far
    other             \* the locals of a second instance of the process, which
                      \* is not running while the ones above are

db == <<log_lines, player_sessions, map_history, player_stats>>
run == <<pc, state, data, new_state, attempt, posts, outcome, qfail, fetched>>
vars == <<log_lines, player_sessions, map_history, player_stats, file, pc, state,
          data, new_state, attempt, posts, outcome, qfail, fetched, delivered,
          other>>

\* ---------------------------------------------------------------- helpers
Max(a, b) == IF a >= b THEN a ELSE b
Min(a, b) == IF a <= b THEN a ELSE b

RECURSIVE SetMax(_)
SetMax(S) == IF S = {} THEN 0
             ELSE LET x == CHOOSE x \in S : TRUE IN Max(x, SetMax(S \ {x}))

\* The rows of a table with their primary key, in ascending id order.
WithIds(table) == [i \in 1..Len(table) |-> [id |-> i, row |-> table[i]]]

\* ORDER BY id ASC LIMIT n applied to rows already in id order.
\* Mutant: the LIMIT keeps the rows with the highest ids.
Limit_highest(rows, n) == SubSeq(rows, Max(1, Len(rows) - n + 1), Len(rows))

Limit(rows, n) == SubSeq(rows, 1, Min(n, Len(rows)))

Ids(records) == {records[i].id : i \in 1..Len(records)}

\* ------------------------------------------------------------ state store
DefaultState ==
    [last_exported_ids |-> [t \in Tables |-> 0],
     export_count      |-> 0,
     last_export_time  |-> NULL,
     last_success      |-> NULL,
     last_error        |-> "null",
     total_exported    |-> [t \in Tables |-> 0]]

\* The file: missing is the set of keys the JSON object in it lacks
\* (MissingKeys below); content holds a placeholder under such a key.
NoFile == [exists |-> FALSE, valid |-> FALSE, content |-> DefaultState,
           missing |-> {}]
\* The file after open(..., 'w') and before json.dump has finished.
TruncatedFile == [exists |-> TRUE, valid |-> FALSE, content |-> DefaultState,
                  missing |-> {}]

\* The file while json.dump is writing: a prefix of the text of s, which is
\* not JSON. content is what the bytes were written from.
PartialFile(s) ==
    [exists |-> TRUE, valid |-> FALSE,
     content |-> [s EXCEPT !.last_export_time = Time], missing |-> {}]

\* Mutant: what the file was written from is returned whether or not the
\* text parses.
load_sync_state_trusting(f) ==
    IF f.exists THEN f.content ELSE DefaultState

load_sync_state(f) ==
    IF f.exists /\ f.valid THEN f.content ELSE DefaultState

\* The file save_sync_state leaves when open and json.dump both complete.
save_sync_state(s) ==
    [exists |-> TRUE, valid |-> TRUE,
     content |-> [s EXCEPT !.last_export_time = Time], missing |-> {}]

\* Keys a state file written by another version of the program can lack:
\* three top-level keys and the four keys of last_exported_ids.
CursorKey(t) ==
    CASE t = "log_lines"       -> "last_exported_ids.log_lines"
      [] t = "player_sessions" -> "last_exported_ids.player_sessions"
      [] t = "player_stats"    -> "last_exported_ids.player_stats"
      [] t = "map_history"     -> "last_exported_ids.map_history"
MissingKeys ==
    {"last_exported_ids", "export_count", "total_exported"}
        \cup {CursorKey(t) : t \in Tables}

\* The keys the dict that load_sync_state returned lacks.
missing_of(f) == IF f.exists /\ f.valid THEN f.missing ELSE {}

\* state.get('last_exported_ids', {}), last_ids.get(t, 0) and
\* state.get('export_count', 0) on a dict s that lacks the keys in missing.
state_get(s, missing) ==
    [s EXCEPT
        !.last_exported_ids =
            [t \in Tables |->
                IF "last_exported_ids" \in missing \/ CursorKey(t) \in missing
                THEN 0 ELSE s.last_exported_ids[t]],
        !.export_count = IF "export_count" \in missing THEN 0 ELSE s.export_count]

\* --------------------------------------------------------- external id
\* hashlib.md5(f"{start_str}_{end_str}_{map_name}"): the digest is kept as
\* the tuple of the hashed fields (collision-free).
\* Mutant: the end of the match is not hashed.
create_map_external_id_without_end(server_name, map_id, start, end, map_name) ==
    LET start_str == start
        hash_short == <<start_str, map_name>>
    IN <<server_name, "map", map_id, hash_short>>

create_map_external_id(server_name, map_id, start, end, map_name) ==
    LET start_str == start
        end_str   == IF end # NULL THEN <<"iso", end>> ELSE <<"ongoing">>
        hash_short == <<start_str, end_str, map_name>>
    IN <<server_name, "map", map_id, hash_short>>

\* Columns of map_history the model keeps fixed per row.
MapStart(map_id) == Time
MapName(map_id) == "map"

\* -------------------------------------------------------------- extractors
\* The for loop over cursor.fetchall(): highest_id = max(highest_id, row id).
RECURSIVE HighestAfter(_, _)
HighestAfter(rows, highest_id) ==
    IF rows = <<>> THEN highest_id
    ELSE HighestAfter(Tail(rows), Max(highest_id, Head(rows).id))

\* Every record of a payload carries the primary key of its row as "id";
\* the key is not part of the JSON sent, it identifies the record here.

map_entry(r) ==
    LET server_name == SERVER_NAMES(r.row.server_number)
    IN [id              |-> r.id,
        map_external_id |-> create_map_external_id(server_name, r.id,
                                MapStart(r.id), r.row.end, MapName(r.id)),
        end             |-> r.row.end,
        server_name     |-> server_name]

\* Mutant: highest_id starts at 0 instead of since_id.
get_map_id_mapping_from_zero(table, since_id, raises) ==
    IF raises THEN [records |-> <<>>, highest_id |-> 0, rows |-> {}]
    ELSE LET selected == SelectSeq(WithIds(table), LAMBDA r :
                             r.row.server_number \in ENABLED_SERVERS /\ r.id > since_id)
             rows == Limit(selected, BATCH_SIZE_MAPS)
         IN [records    |-> [i \in 1..Len(rows) |-> map_entry(rows[i])],
             highest_id |-> HighestAfter(rows, 0),
             rows       |-> Ids(rows)]

get_map_id_mapping(table, since_id, raises) ==
    IF raises THEN [records |-> <<>>, highest_id |-> since_id, rows |-> {}]
    ELSE LET selected == SelectSeq(WithIds(table), LAMBDA r :
                             r.row.server_number \in ENABLED_SERVERS /\ r.id > since_id)
             rows == Limit(selected, BATCH_SIZE_MAPS)
         IN [records    |-> [i \in 1..Len(rows) |-> map_entry(rows[i])],
             highest_id |-> HighestAfter(rows, since_id),
             rows       |-> Ids(rows)]

log_entry(r) ==
    [id          |-> r.id,
     type        |-> r.row.type,
     server_name |-> SERVER_NAMES(r.row.server)]

\* Mutant: the high-water mark is taken over every selected row, the LIMIT
\* applies to the records only.
get_filtered_logs_unlimited_mark(table, since_id, raises) ==
    IF raises THEN [records |-> <<>>, highest_id |-> since_id, rows |-> {}]
    ELSE LET selected == SelectSeq(WithIds(table), LAMBDA r :
                             /\ r.row.type \in {"KILL", "TEAM KILL"}
                             /\ r.id > since_id
                             /\ r.row.server \in ENABLED_SERVERS)
             rows == Limit(selected, BATCH_SIZE_LOG_LINES)
         IN [records    |-> [i \in 1..Len(rows) |-> log_entry(rows[i])],
             highest_id |-> HighestAfter(selected, since_id),
             rows       |-> Ids(rows)]

get_filtered_logs(table, since_id, raises) ==
    IF raises THEN [records |-> <<>>, highest_id |-> since_id, rows |-> {}]
    ELSE LET selected == SelectSeq(WithIds(table), LAMBDA r :
                             /\ r.row.type \in {"KILL", "TEAM KILL"}
                             /\ r.id > since_id
                             /\ r.row.server \in ENABLED_SERVERS)
             rows == Limit(selected, BATCH_SIZE_LOG_LINES)
         IN [records    |-> [i \in 1..Len(rows) |-> log_entry(rows[i])],
             highest_id |-> HighestAfter(rows, since_id),
             rows       |-> Ids(rows)]

\* LEFT JOIN map_history AS mh ON ps.map_id = mh.id: the joined columns are
\* NULL (server number 0) when no map row has that id.
JoinMap(maps, r) ==
    IF r.row.map_id \in 1..Len(maps)
    THEN [id |-> r.id, map_id |-> r.row.map_id,
          server_number |-> maps[r.row.map_id].server_number,
          end |-> maps[r.row.map_id].end]
    ELSE [id |-> r.id, map_id |-> r.row.map_id,
          server_number |-> 0, end |-> NULL]

stat_entry(j) ==
    LET server_name == SERVER_NAMES(j.server_number)
    IN [id              |-> j.id,
        map_external_id |-> create_map_external_id(server_name, j.map_id,
                                MapStart(j.map_id), j.end, MapName(j.map_id)),
        server_name     |-> server_name,
        match_end       |-> j.end]

\* Mutant: the WHERE clause lacks mh.server_number = ANY(...).
get_player_stats_any_server(table, maps, since_id, raises) ==
    IF raises THEN [records |-> <<>>, highest_id |-> since_id, rows |-> {}]
    ELSE LET joined == [i \in 1..Len(table) |-> JoinMap(maps, WithIds(table)[i])]
             selected == SelectSeq(joined, LAMBDA j : j.id > since_id)
             rows == Limit(selected, BATCH_SIZE_PLAYER_STATS)
         IN [records    |-> [i \in 1..Len(rows) |-> stat_entry(rows[i])],
             highest_id |-> HighestAfter(rows, since_id),
             rows       |-> Ids(rows)]

get_player_stats(table, maps, since_id, raises) ==
    IF raises THEN [records |-> <<>>, highest_id |-> since_id, rows |-> {}]
    ELSE LET joined == [i \in 1..Len(table) |-> JoinMap(maps, WithIds(table)[i])]
             selected == SelectSeq(joined, LAMBDA j :
                             j.id > since_id /\ j.server_number \in ENABLED_SERVERS)
             rows == Limit(selected, BATCH_SIZE_PLAYER_STATS)
         IN [records    |-> [i \in 1..Len(rows) |-> stat_entry(rows[i])],
             highest_id |-> HighestAfter(rows, since_id),
             rows       |-> Ids(rows)]

session_entry(r) ==
    [id          |-> r.id,
     end         |-> r.row.end,
     server_name |-> SERVER_NAMES(r.row.server_number)]

\* Mutant: the lookback query for recently closed sessions with id <= since_id
\* is enabled.
get_player_sessions_with_lookback(table, since_id, raises) ==
    IF raises THEN [records |-> <<>>, highest_id |-> since_id, rows |-> {}]
    ELSE LET selected == SelectSeq(WithIds(table), LAMBDA r :
                             r.id > since_id /\ r.row.server_number \in ENABLED_SERVERS)
             result_new == Limit(selected, BATCH_SIZE_PLAYER_SESSIONS)
             kept == SelectSeq(result_new, LAMBDA r :
                         ~(EXPORT_ONLY_CLOSED_SESSIONS /\ r.row.end = NULL))
             result_recent == SelectSeq(WithIds(table), LAMBDA r :
                                  /\ r.row.end # NULL /\ r.id <= since_id
                                  /\ r.row.server_number \in ENABLED_SERVERS)
             sessions == kept \o result_recent
         IN [records    |-> [i \in 1..Len(sessions) |-> session_entry(sessions[i])],
             highest_id |-> HighestAfter(result_new, since_id),
             rows       |-> Ids(result_new)]

\* Mutant: highest_checked_id starts at 0, which is what a raising query
\* leaves in it.
get_player_sessions_zero_on_error(table, since_id, raises) ==
    IF raises THEN [records |-> <<>>, highest_id |-> 0, rows |-> {}]
    ELSE LET selected == SelectSeq(WithIds(table), LAMBDA r :
                             r.id > since_id /\ r.row.server_number \in ENABLED_SERVERS)
             result_new == Limit(selected, BATCH_SIZE_PLAYER_SESSIONS)
             kept == SelectSeq(result_new, LAMBDA r :
                         ~(EXPORT_ONLY_CLOSED_SESSIONS /\ r.row.end = NULL))
         IN [records    |-> [i \in 1..Len(kept) |-> session_entry(kept[i])],
             highest_id |-> HighestAfter(result_new, since_id),
             rows       |-> Ids(result_new)]

\* Mutant: highest_checked_id is raised after the open-session skip, so only
\* by the rows that are exported.
get_player_sessions_mark_exported(table, since_id, raises) ==
    IF raises THEN [records |-> <<>>, highest_id |-> since_id, rows |-> {}]
    ELSE LET selected == SelectSeq(WithIds(table), LAMBDA r :
                             r.id > since_id /\ r.row.server_number \in ENABLED_SERVERS)
             result_new == Limit(selected, BATCH_SIZE_PLAYER_SESSIONS)
             kept == SelectSeq(result_new, LAMBDA r :
                         ~(EXPORT_ONLY_CLOSED_SESSIONS /\ r.row.end = NULL))
         IN [records    |-> [i \in 1..Len(kept) |-> session_entry(kept[i])],
             highest_id |-> HighestAfter(kept, since_id),
             rows       |-> Ids(result_new)]

\* The lookback query of lines 461-494 is under "if False" and never runs.
get_player_sessions(table, since_id, raises) ==
    IF raises THEN [records |-> <<>>, highest_id |-> since_id, rows |-> {}]
    ELSE LET selected == SelectSeq(WithIds(table), LAMBDA r :
                             r.id > since_id /\ r.row.server_number \in ENABLED_SERVERS)
             result_new == Limit(selected, BATCH_SIZE_PLAYER_SESSIONS)
             kept == SelectSeq(result_new, LAMBDA r :
                         ~(EXPORT_ONLY_CLOSED_SESSIONS /\ r.row.end = NULL))
         IN [records    |-> [i \in 1..Len(kept) |-> session_entry(kept[i])],
             highest_id |-> HighestAfter(result_new, since_id),
             rows       |-> Ids(result_new)]

\* ------------------------------------------------------------- the database
\* Rows other processes (the game server's CRCON) insert and update.
LogRows == {r \in [server : Servers, type : {"KILL", "TEAM KILL", "CHAT"}] :
               r.server \in ENABLED_SERVERS \/ r.type = "KILL"}
TimedRows == [server_number : Servers, end : {NULL, Time}]

RowCount == Len(log_lines) + Len(player_sessions) + Len(map_history) + Len(player_stats)

AppendLog(r) ==
    /\ RowCount < MaxRows
    /\ log_lines' = Append(log_lines, r)
    /\ UNCHANGED <<player_sessions, map_history, player_stats, file, run, other, delivered>>

AppendSession(r) ==
    /\ RowCount < MaxRows
    /\ player_sessions' = Append(player_sessions, r)
    /\ UNCHANGED <<log_lines, map_history, player_stats, file, run, other, delivered>>

AppendMap(r) ==
    /\ RowCount < MaxRows
    /\ map_history' = Append(map_history, r)
    /\ UNCHANGED <<log_lines, player_sessions, player_stats, file, run, other, delivered>>

\* player_stats.map_id references an existing map_history row.
AppendStat(map_id) ==
    /\ RowCount < MaxRows
    /\ map_id \in 1..Len(map_history)
    /\ player_stats' = Append(player_stats, [map_id |-> map_id])
    /\ UNCHANGED <<log_lines, player_sessions, map_history, file, run, other, delivered>>

\* The player disconnects: the session's end is set.
CloseSession(i) ==
    /\ i \in 1..Len(player_sessions)
    /\ player_sessions[i].end = NULL
    /\ player_sessions' = [player_sessions EXCEPT ![i].end = Time]
    /\ UNCHANGED <<log_lines, map_history, player_stats, file, run, other, delivered>>

\* The match ends: the map's end is set.
CloseMap(i) ==
    /\ i \in 1..Len(map_history)
    /\ map_history[i].end = NULL
    /\ map_history' = [map_history EXCEPT ![i].end = Time]
    /\ UNCHANGED <<log_lines, player_sessions, player_stats, file, run, other, delivered>>

\* --------------------------------------------------------------- the sync
EmptyData == [maps |-> <<>>, log_lines |-> <<>>, player_sessions |-> <<>>,
              player_stats |-> <<>>]

\* sync_data returns: its locals (state, data, new_state, attempt) are gone.
Return ==
    /\ pc' = "idle"
    /\ state' = DefaultState
    /\ data' = EmptyData
    /\ new_state' = DefaultState
    /\ attempt' = 1
    /\ qfail' = {}
    /\ fetched' = [t \in Tables |-> {}]

\* Mutant: the length of the payload dict (its server_id entry included) is
\* added to the count.
total_new_with_keys(d) ==
    Len(d.maps) + Len(d.log_lines) + Len(d.player_sessions) + Len(d.player_stats) + 1

\* send_to_external_db: total_new = sum(counts.values())
total_new(d) ==
    Len(d.maps) + Len(d.log_lines) + Len(d.player_sessions) + Len(d.player_stats)

\* Mutant: the marks of player_sessions and player_stats are stored under
\* each other's key.
prospective_state_swapped(s, maps, logs, sessions, stats) ==
    [s EXCEPT
        !.last_exported_ids = [map_history    |-> maps.highest_id,
                               log_lines       |-> logs.highest_id,
                               player_sessions |-> stats.highest_id,
                               player_stats    |-> sessions.highest_id],
        !.export_count = s.export_count + 1,
        !.total_exported = [log_lines       |-> s.total_exported.log_lines + Len(logs.records),
                            player_sessions |-> s.total_exported.player_sessions + Len(sessions.records),
                            player_stats    |-> s.total_exported.player_stats + Len(stats.records),
                            map_history     |-> s.total_exported.map_history + Len(maps.records)]]

\* Mutant: total_exported counts the rows fetched, not the records appended.
prospective_state_counting_fetched(s, maps, logs, sessions, stats) ==
    [s EXCEPT
        !.last_exported_ids = [map_history    |-> maps.highest_id,
                               log_lines       |-> logs.highest_id,
                               player_sessions |-> sessions.highest_id,
                               player_stats    |-> stats.highest_id],
        !.export_count = s.export_count + 1,
        !.total_exported = [log_lines       |-> s.total_exported.log_lines + Cardinality(logs.rows),
                            player_sessions |-> s.total_exported.player_sessions + Cardinality(sessions.rows),
                            player_stats    |-> s.total_exported.player_stats + Cardinality(stats.rows),
                            map_history     |-> s.total_exported.map_history + Cardinality(maps.rows)]]

\* Mutant: the marks are the highest ids of the records in the payload, 0
\* for a table without records.
prospective_state_from_payload(s, maps, logs, sessions, stats) ==
    [s EXCEPT
        !.last_exported_ids = [map_history    |-> SetMax(Ids(maps.records)),
                               log_lines       |-> SetMax(Ids(logs.records)),
                               player_sessions |-> SetMax(Ids(sessions.records)),
                               player_stats    |-> SetMax(Ids(stats.records))],
        !.export_count = s.export_count + 1,
        !.total_exported = [log_lines       |-> s.total_exported.log_lines + Len(logs.records),
                            player_sessions |-> s.total_exported.player_sessions + Len(sessions.records),
                            player_stats    |-> s.total_exported.player_stats + Len(stats.records),
                            map_history     |-> s.total_exported.map_history + Len(maps.records)]]

\* prepare_data_for_export: the prospective state.
prospective_state(s, maps, logs, sessions, stats) ==
    [s EXCEPT
        !.last_exported_ids = [map_history    |-> maps.highest_id,
                               log_lines       |-> logs.highest_id,
                               player_sessions |-> sessions.highest_id,
                               player_stats    |-> stats.highest_id],
        !.export_count = s.export_count + 1,
        !.total_exported = [log_lines       |-> s.total_exported.log_lines + Len(logs.records),
                            player_sessions |-> s.total_exported.player_sessions + Len(sessions.records),
                            player_stats    |-> s.total_exported.player_stats + Len(stats.records),
                            map_history     |-> s.total_exported.map_history + Len(maps.records)]]

\* Mutant: prepare_data_for_export saves the prospective state it built.
Prepare_saving(raising) ==
    /\ pc = "idle"
    /\ "total_exported" \notin missing_of(file)
    /\ LET s        == state_get(load_sync_state(file), missing_of(file))
           last_ids == s.last_exported_ids
           maps     == get_map_id_mapping(map_history, last_ids.map_history,
                                          "map_history" \in raising)
           logs     == get_filtered_logs(log_lines, last_ids.log_lines,
                                         "log_lines" \in raising)
           sessions == get_player_sessions(player_sessions, last_ids.player_sessions,
                                           "player_sessions" \in raising)
           stats    == get_player_stats(player_stats, map_history,
                                        last_ids.player_stats, "player_stats" \in raising)
       IN /\ state' = s
          /\ data' = [maps |-> maps.records, log_lines |-> logs.records,
                      player_sessions |-> sessions.records,
                      player_stats |-> stats.records]
          /\ new_state' = prospective_state(s, maps, logs, sessions, stats)
          /\ fetched' = [map_history |-> maps.rows, log_lines |-> logs.rows,
                         player_sessions |-> sessions.rows, player_stats |-> stats.rows]
    /\ qfail' = raising
    /\ pc' = "sending"
    /\ attempt' = 1
    /\ posts' = 0
    /\ file' = save_sync_state(new_state')
    /\ UNCHANGED <<db, other, outcome, delivered>>

\* sync_data up to the call of send_to_external_db: prepare_data_for_export
\* loads the state and runs the four extractors on the loaded cursors.
\* raising is the set of tables whose query raises.
Prepare(raising) ==
    /\ pc = "idle"
    /\ "total_exported" \notin missing_of(file)
    /\ LET s        == state_get(load_sync_state(file), missing_of(file))
           last_ids == s.last_exported_ids
           maps     == get_map_id_mapping(map_history, last_ids.map_history,
                                          "map_history" \in raising)
           logs     == get_filtered_logs(log_lines, last_ids.log_lines,
                                         "log_lines" \in raising)
           sessions == get_player_sessions(player_sessions, last_ids.player_sessions,
                                           "player_sessions" \in raising)
           stats    == get_player_stats(player_stats, map_history,
                                        last_ids.player_stats, "player_stats" \in raising)
       IN /\ state' = s
          /\ data' = [maps |-> maps.records, log_lines |-> logs.records,
                      player_sessions |-> sessions.records,
                      player_stats |-> stats.records]
          /\ new_state' = prospective_state(s, maps, logs, sessions, stats)
          /\ fetched' = [map_history |-> maps.rows, log_lines |-> logs.rows,
                         player_sessions |-> sessions.rows, player_stats |-> stats.rows]
    /\ qfail' = raising
    /\ pc' = "sending"
    /\ attempt' = 1
    /\ posts' = 0
    /\ UNCHANGED <<db, other, file, outcome, delivered>>

\* The result loop of an extractor when the transformation of the k-th
\* fetched row raises: highest_id was raised to that row's id at the top of
\* the iteration, the record was not appended, and the except clause returns
\* what there is. result is what the extractor returns when nothing raises.
interrupted(result, since_id, k) ==
    [records    |-> SubSeq(result.records, 1, k - 1),
     highest_id |-> HighestAfter(SubSeq(result.records, 1, k), since_id),
     rows       |-> result.rows]

\* prepare_data_for_export in which the result loop of table t raises at its
\* k-th row (for log_lines, map_history and player_stats every fetched row
\* becomes a record).
PrepareRowRaises(t, k) ==
    /\ pc = "idle"
    /\ "total_exported" \notin missing_of(file)
    /\ t \in {"log_lines", "map_history", "player_stats"}
    /\ LET s        == state_get(load_sync_state(file), missing_of(file))
           last_ids == s.last_exported_ids
           cut(r)   == interrupted(r, last_ids[t], k)
           all_maps == get_map_id_mapping(map_history, last_ids.map_history, FALSE)
           all_logs == get_filtered_logs(log_lines, last_ids.log_lines, FALSE)
           sessions == get_player_sessions(player_sessions, last_ids.player_sessions,
                                           FALSE)
           all_stats == get_player_stats(player_stats, map_history,
                                         last_ids.player_stats, FALSE)
           maps     == IF t = "map_history" THEN cut(all_maps) ELSE all_maps
           logs     == IF t = "log_lines" THEN cut(all_logs) ELSE all_logs
           stats    == IF t = "player_stats" THEN cut(all_stats) ELSE all_stats
           whole    == CASE t = "map_history"  -> all_maps
                         [] t = "log_lines"    -> all_logs
                         [] t = "player_stats" -> all_stats
       IN /\ k \in 1..Len(whole.records)
          /\ state' = s
          /\ data' = [maps |-> maps.records, log_lines |-> logs.records,
                      player_sessions |-> sessions.records,
                      player_stats |-> stats.records]
          /\ new_state' = prospective_state(s, maps, logs, sessions, stats)
          /\ fetched' = [map_history |-> maps.rows, log_lines |-> logs.rows,
                         player_sessions |-> sessions.rows, player_stats |-> stats.rows]
    /\ qfail' = {}
    /\ pc' = "sending"
    /\ attempt' = 1
    /\ posts' = 0
    /\ UNCHANGED <<db, other, file, outcome, delivered>>

\* get_db_connection raises: prepare_data_for_export returns None and
\* sync_data returns without sending.
PrepareFails ==
    /\ pc = "idle"
    /\ outcome' = "no_result"
    /\ UNCHANGED <<db, other, file, pc, state, data, new_state, attempt, posts, qfail,
                   fetched, delivered>>

\* new_state['total_exported'][...] = ... raises KeyError on a loaded dict
\* without that key: prepare_data_for_export logs it and returns None, and
\* sync_data returns without sending.
PrepareRaises ==
    /\ pc = "idle"
    /\ "total_exported" \in missing_of(file)
    /\ outcome' = "no_result"
    /\ UNCHANGED <<db, other, file, pc, state, data, new_state, attempt, posts, qfail,
                   fetched, delivered>>

\* send_to_external_db with nothing to send: returns True before any request.
SendNothing ==
    /\ pc = "sending"
    /\ total_new(data) = 0
    /\ outcome' = "success"
    /\ Return
    /\ UNCHANGED <<db, other, file, posts, delivered>>

\* What one requests.post call can come back with.
Acknowledged == {"200_success", "200_no_json"}
Refused == {"200_failure", "429", "http_error", "timeout", "connection_error",
            "exception"}

\* delivered before any payload was acknowledged: per table the ids of the
\* rows.
NothingDelivered ==
    [map_history |-> {}, log_lines |-> {}, player_sessions |-> {},
     player_stats |-> {}]

Acknowledge(d) ==
    [map_history     |-> delivered.map_history \cup Ids(d.maps),
     log_lines       |-> delivered.log_lines \cup Ids(d.log_lines),
     player_sessions |-> delivered.player_sessions \cup Ids(d.player_sessions),
     player_stats    |-> delivered.player_stats \cup Ids(d.player_stats)]

\* One iteration of the retry loop that ends in "return True": the state is
\* stamped and saved.
PostAcknowledged(response) ==
    /\ pc = "sending"
    /\ total_new(data) > 0
    /\ attempt <= MAX_RETRIES
    /\ response \in Acknowledged
    /\ posts' = posts + 1
    /\ file' = save_sync_state([new_state EXCEPT !.last_success = Time,
                                                 !.last_error = "null"])
    /\ delivered' = Acknowledge(data)
    /\ outcome' = "success"
    /\ Return
    /\ UNCHANGED <<db, other>>

\* state['last_error'] after a response that is no acknowledgement.
error_recorded(s, response) ==
    CASE response = "200_failure" -> [s EXCEPT !.last_error = "api_error"]
      [] response = "http_error"  -> [s EXCEPT !.last_error = "http_error"]
      [] OTHER                    -> s

\* Mutant: the diagnostics of a refused attempt are saved with the state.
file_after_refusal_saving(f, s) == save_sync_state(s)

\* The file after an iteration of the retry loop that was not acknowledged.
file_after_refusal(f, s) == f

\* Mutant: a 200 response whose body says success: false ends the loop with
\* "return False".
PostRefused_failure_terminal(response) ==
    /\ pc = "sending"
    /\ total_new(data) > 0
    /\ attempt <= MAX_RETRIES
    /\ response \in Refused
    /\ posts' = posts + 1
    /\ file' = file_after_refusal(file, error_recorded(new_state, response))
    /\ IF attempt < MAX_RETRIES /\ response # "200_failure"
       THEN /\ attempt' = attempt + 1
            /\ new_state' = error_recorded(new_state, response)
            /\ UNCHANGED <<pc, outcome, state, data, qfail, fetched>>
       ELSE /\ outcome' = "failed"
            /\ Return
    /\ UNCHANGED <<db, other, delivered>>

\* Mutant: the loop is range(1, MAX_RETRIES + 2).
PostRefused_one_more(response) ==
    /\ pc = "sending"
    /\ total_new(data) > 0
    /\ attempt <= MAX_RETRIES + 1
    /\ response \in Refused
    /\ posts' = posts + 1
    /\ file' = file_after_refusal(file, error_recorded(new_state, response))
    /\ IF attempt < MAX_RETRIES + 1
       THEN /\ attempt' = attempt + 1
            /\ new_state' = error_recorded(new_state, response)
            /\ UNCHANGED <<pc, outcome, state, data, qfail, fetched>>
       ELSE /\ outcome' = "failed"
            /\ Return
    /\ UNCHANGED <<db, other, delivered>>

\* One iteration of the retry loop that is not acknowledged: the loop goes
\* on, or after the last attempt send_to_external_db returns False.
PostRefused(response) ==
    /\ pc = "sending"
    /\ total_new(data) > 0
    /\ attempt <= MAX_RETRIES
    /\ response \in Refused
    /\ posts' = posts + 1
    /\ file' = file_after_refusal(file, error_recorded(new_state, response))
    /\ IF attempt < MAX_RETRIES
       THEN /\ attempt' = attempt + 1
            /\ new_state' = error_recorded(new_state, response)
            /\ UNCHANGED <<pc, outcome, state, data, qfail, fetched>>
       ELSE /\ outcome' = "failed"
            /\ Return
    /\ UNCHANGED <<db, other, delivered>>

\* ---------------------------------------------------------- specification
\* other when the process is the only instance.
NoInstance == [pc |-> "absent"]

\* The locals of an instance of the process that has not run sync_data yet.
IdleInstance ==
    [pc |-> "idle", state |-> DefaultState, data |-> EmptyData,
     new_state |-> DefaultState, attempt |-> 1, posts |-> 0,
     qfail |-> {}, fetched |-> [t \in Tables |-> {}]]

Init ==
    /\ log_lines = <<>>
    /\ player_sessions = <<>>
    /\ map_history = <<>>
    /\ player_stats = <<>>
    /\ file = NoFile
    /\ pc = "idle"
    /\ state = DefaultState
    /\ data = EmptyData
    /\ new_state = DefaultState
    /\ attempt = 1
    /\ posts = 0
    /\ outcome = "none"
    /\ qfail = {}
    /\ fetched = [t \in Tables |-> {}]
    /\ delivered = NothingDelivered
    /\ other = NoInstance

Inserts ==
    \/ \E r \in LogRows : AppendLog(r)
    \/ \E r \in TimedRows : AppendSession(r)
    \/ \E r \in TimedRows : AppendMap(r)
    \/ \E m \in 1..MaxRows : AppendStat(m)

Updates ==
    \/ \E i \in 1..MaxRows : CloseSession(i)
    \/ \E i \in 1..MaxRows : CloseMap(i)

Database == Inserts \/ Updates

\* Serialized runs of sync_data in which every query succeeds, next to the
\* database being written.
Next ==
    \/ Database
    \/ Prepare({})
    \/ PrepareFails
    \/ SendNothing
    \/ \E response \in Acknowledged : PostAcknowledged(response)
    \/ \E response \in Refused : PostRefused(response)

Spec == Init /\ [][Next]_vars

\* The same with any of the four queries of a run raising.
QueriesRaisingNext ==
    \/ (RowCount < MaxRowsQueriesRaising /\ Inserts)
    \/ Updates
    \/ \E raising \in SUBSET Tables : Prepare(raising)
    \/ PrepareFails
    \/ SendNothing
    \/ \E response \in Acknowledged : PostAcknowledged(response)
    \/ \E response \in Refused : PostRefused(response)

QueriesRaisingSpec == Init /\ [][QueriesRaisingNext]_vars

\* Scheduling: main_loop calls sync_data again after every return, every
\* request ends (REQUEST_TIMEOUT), and the environment of the liveness claims
\* lets the database be reached and a delivery be acknowledged again and again.
Fairness ==
    /\ SF_vars(Prepare({}))
    /\ WF_vars(SendNothing)
    /\ SF_vars(\E response \in Acknowledged : PostAcknowledged(response))

FairSpec == Init /\ [][Next]_vars /\ Fairness

\* send_to_external_db, one step of it. Every requests.post returns or raises
\* within REQUEST_TIMEOUT and every time.sleep ends, so a step that can be
\* taken is taken; nothing is assumed about what the endpoint answers.
Send ==
    \/ SendNothing
    \/ \E response \in Acknowledged : PostAcknowledged(response)
    \/ \E response \in Refused : PostRefused(response)

RetryNext ==
    \/ (RowCount < MaxRowsRetry /\ Inserts)
    \/ Updates
    \/ Prepare({})
    \/ PrepareFails
    \/ SendNothing
    \/ \E response \in Acknowledged : PostAcknowledged(response)
    \/ \E response \in Refused : PostRefused(response)

RetrySpec == Init /\ [][RetryNext]_vars /\ WF_vars(Send)

\* A state file that another version of the program wrote after it had
\* delivered the kill with id 1, and that lacks some of the keys.
OldFormatFiles ==
    {[exists |-> TRUE, valid |-> TRUE,
      content |-> [DefaultState EXCEPT
                      !.last_exported_ids.log_lines = 1,
                      !.export_count = 1,
                      !.last_export_time = Time,
                      !.last_success = Time,
                      !.total_exported.log_lines = 1],
      missing |-> m] : m \in (SUBSET MissingKeys) \ {{}}}

OldFormatInit ==
    /\ log_lines = <<[server |-> 1, type |-> "KILL"]>>
    /\ player_sessions = <<>>
    /\ map_history = <<>>
    /\ player_stats = <<>>
    /\ file \in OldFormatFiles
    /\ pc = "idle"
    /\ state = DefaultState
    /\ data = EmptyData
    /\ new_state = DefaultState
    /\ attempt = 1
    /\ posts = 0
    /\ outcome = "none"
    /\ qfail = {}
    /\ fetched = [t \in Tables |-> {}]
    /\ delivered = [NothingDelivered EXCEPT !.log_lines = {1}]
    /\ other = NoInstance

\* Serialized runs on such a file, the database being reachable.
OldFormatNext ==
    \/ (RowCount < MaxRowsOldFormat /\ Inserts)
    \/ Updates
    \/ Prepare({})
    \/ PrepareRaises
    \/ SendNothing
    \/ \E response \in Acknowledged : PostAcknowledged(response)
    \/ \E response \in Refused : PostRefused(response)

OldFormatSpec == OldFormatInit /\ [][OldFormatNext]_vars

\* Two instances of the process on one database and one state file, with
\* no lock between them: the operating system stops the one that is running
\* where it is and lets the other one go on.
Switch ==
    /\ pc = "sending" \/ other.pc = "sending"
    /\ other' = [pc |-> pc, state |-> state, data |-> data,
                 new_state |-> new_state, attempt |-> attempt, posts |-> posts,
                 qfail |-> qfail, fetched |-> fetched]
    /\ pc' = other.pc
    /\ state' = other.state
    /\ data' = other.data
    /\ new_state' = other.new_state
    /\ attempt' = other.attempt
    /\ posts' = other.posts
    /\ qfail' = other.qfail
    /\ fetched' = other.fetched
    /\ UNCHANGED <<db, file, outcome, delivered>>

OverlapNext ==
    \/ (RowCount < MaxRowsOverlap /\ Inserts)
    \/ Updates
    \/ Prepare({})
    \/ SendNothing
    \/ \E response \in Acknowledged : PostAcknowledged(response)
    \/ \E response \in Refused : PostRefused(response)
    \/ Switch

\* Init with a second instance that has been started.
OverlapInit ==
    /\ log_lines = <<>>
    /\ player_sessions = <<>>
    /\ map_history = <<>>
    /\ player_stats = <<>>
    /\ file = NoFile
    /\ pc = "idle"
    /\ state = DefaultState
    /\ data = EmptyData
    /\ new_state = DefaultState
    /\ attempt = 1
    /\ posts = 0
    /\ outcome = "none"
    /\ qfail = {}
    /\ fetched = [t \in Tables |-> {}]
    /\ delivered = NothingDelivered
    /\ other = IdleInstance

OverlapSpec == OverlapInit /\ [][OverlapNext]_vars

\* Serialized runs in which the transformation of a fetched row can raise.
RowRaisesNext ==
    \/ (RowCount < MaxRowsRowRaises /\ Inserts)
    \/ Updates
    \/ Prepare({})
    \/ \E t \in Tables, k \in 1..MaxRowsRowRaises : PrepareRowRaises(t, k)
    \/ PrepareFails
    \/ SendNothing
    \/ \E response \in Acknowledged : PostAcknowledged(response)
    \/ \E response \in Refused : PostRefused(response)

RowRaisesSpec == Init /\ [][RowRaisesNext]_vars

\* What a save_sync_state that raises inside its try block can leave of
\* file f when it was to write s: f itself when open(..., 'w') raises, the
\* emptied file or part of the text when json.dump raises.
files_after_failed_save(f, s) == {f, TruncatedFile, PartialFile(s)}

\* One iteration of the retry loop that ends in "return True" while the
\* write in save_sync_state raises: the except clause logs it and
\* send_to_external_db returns True all the same.
PostAcknowledgedSaveFails(response) ==
    /\ pc = "sending"
    /\ total_new(data) > 0
    /\ attempt <= MAX_RETRIES
    /\ response \in Acknowledged
    /\ posts' = posts + 1
    /\ file' \in files_after_failed_save(file,
                    [new_state EXCEPT !.last_success = Time, !.last_error = "null"])
    /\ delivered' = Acknowledge(data)
    /\ outcome' = "success"
    /\ Return
    /\ UNCHANGED <<db, other>>

\* Serialized runs on a file system on which a write can fail.
SaveFailsNext ==
    \/ (RowCount < MaxRowsSaveFails /\ Inserts)
    \/ Updates
    \/ Prepare({})
    \/ PrepareFails
    \/ SendNothing
    \/ \E response \in Acknowledged : PostAcknowledged(response)
    \/ \E response \in Acknowledged : PostAcknowledgedSaveFails(response)
    \/ \E response \in Refused : PostRefused(response)

SaveFailsSpec == Init /\ [][SaveFailsNext]_vars

\* The runs of Spec with delivered also keeping, as map_external_ids, the
\* map_external_id of every map record that was acknowledged.
AcknowledgeMapIds(d) ==
    [map_history      |-> delivered.map_history \cup Ids(d.maps),
     log_lines        |-> delivered.log_lines \cup Ids(d.log_lines),
     player_sessions  |-> delivered.player_sessions \cup Ids(d.player_sessions),
     player_stats     |-> delivered.player_stats \cup Ids(d.player_stats),
     map_external_ids |-> delivered.map_external_ids
                             \cup {d.maps[k].map_external_id : k \in 1..Len(d.maps)}]

PostAcknowledgedMapIds(response) ==
    /\ pc = "sending"
    /\ total_new(data) > 0
    /\ attempt <= MAX_RETRIES
    /\ response \in Acknowledged
    /\ posts' = posts + 1
    /\ file' = save_sync_state([new_state EXCEPT !.last_success = Time,
                                                 !.last_error = "null"])
    /\ delivered' = AcknowledgeMapIds(data)
    /\ outcome' = "success"
    /\ Return
    /\ UNCHANGED <<db, other>>

MapIdsInit ==
    /\ log_lines = <<>>
    /\ player_sessions = <<>>
    /\ map_history = <<>>
    /\ player_stats = <<>>
    /\ file = NoFile
    /\ pc = "idle"
    /\ state = DefaultState
    /\ data = EmptyData
    /\ new_state = DefaultState
    /\ attempt = 1
    /\ posts = 0
    /\ outcome = "none"
    /\ qfail = {}
    /\ fetched = [t \in Tables |-> {}]
    /\ delivered = [map_history |-> {}, log_lines |-> {}, player_sessions |-> {},
                    player_stats |-> {}, map_external_ids |-> {}]
    /\ other = NoInstance

MapIdsNext ==
    \/ (RowCount < MaxRowsMapIds /\ Inserts)
    \/ Updates
    \/ Prepare({})
    \/ PrepareFails
    \/ SendNothing
    \/ \E response \in Acknowledged : PostAcknowledgedMapIds(response)
    \/ \E response \in Refused : PostRefused(response)

MapIdsSpec == MapIdsInit /\ [][MapIdsNext]_vars

\* ------------------------------------------------ termination during a save
\* save_sync_state in two steps: open(SYNC_STATE_FILE, 'w') truncates the
\* file, json.dump writes it. The process can be terminated in between.
SaveOpens(response) ==
    /\ pc = "sending"
    /\ total_new(data) > 0
    /\ attempt <= MAX_RETRIES
    /\ response \in Acknowledged
    /\ posts' = posts + 1
    /\ new_state' = [new_state EXCEPT !.last_success = Time, !.last_error = "null"]
    /\ file' = TruncatedFile
    /\ delivered' = Acknowledge(data)
    /\ pc' = "saving"
    /\ UNCHANGED <<db, other, state, data, attempt, outcome, qfail, fetched>>

SaveDumps ==
    /\ pc = "saving"
    /\ file' = save_sync_state(new_state)
    /\ outcome' = "success"
    /\ Return
    /\ UNCHANGED <<db, other, posts, delivered>>

\* json.dump has written part of the text.
SaveDumpsPartly ==
    /\ pc = "saving"
    /\ file = TruncatedFile
    /\ file' = PartialFile(new_state)
    /\ UNCHANGED <<db, other, run, posts, outcome, delivered>>

\* SIGKILL, power loss, container stop: the process ends where it is; the
\* scheduler starts the next run later.
Terminated ==
    /\ pc = "saving"
    /\ outcome' = "terminated"
    /\ Return
    /\ UNCHANGED <<db, other, file, posts, delivered>>

CrashNext ==
    \/ Database
    \/ Prepare({})
    \/ PrepareFails
    \/ SendNothing
    \/ \E response \in Acknowledged : SaveOpens(response)
    \/ SaveDumps
    \/ Terminated
    \/ \E response \in Refused : PostRefused(response)

CrashSpec == Init /\ [][CrashNext]_vars

\* Runs that find no state file, or one that a terminated save left empty
\* or half written.
CorruptFileNext ==
    \/ (RowCount < MaxRowsCorruptFile /\ Inserts)
    \/ Updates
    \/ Prepare({})
    \/ PrepareFails
    \/ SendNothing
    \/ \E response \in Acknowledged : SaveOpens(response)
    \/ SaveDumpsPartly
    \/ SaveDumps
    \/ Terminated
    \/ \E response \in Refused : PostRefused(response)

CorruptFileSpec == Init /\ [][CorruptFileNext]_vars

\* ------------------------------------------------------------- properties
\* The cursors a load_sync_state of the file returns.
Cursors(f) == load_sync_state(f).last_exported_ids

EnabledLogs == {i \in 1..Len(log_lines) : log_lines[i].server \in ENABLED_SERVERS}
KillLogs == {i \in EnabledLogs : log_lines[i].type \in {"KILL", "TEAM KILL"}}
EnabledSessions ==
    {i \in 1..Len(player_sessions) : player_sessions[i].server_number \in ENABLED_SERVERS}
EnabledMaps ==
    {i \in 1..Len(map_history) : map_history[i].server_number \in ENABLED_SERVERS}
EnabledStats ==
    {i \in 1..Len(player_stats) : player_stats[i].map_id \in EnabledMaps}

\* A step in which send_to_external_db returns.
ReturnsFalse == pc = "sending" /\ pc' = "idle" /\ outcome' = "failed"
ReturnsTrue == pc = "sending" /\ pc' = "idle" /\ outcome' = "success"

\* C1: a run whose send_to_external_db returns False never writes the state
\* file: no step of the run other than a successful return changes the file,
\* and at the failed return a load gives the cursors loaded at the start of
\* the run.
C1_FailedDeliveryKeepsCursors ==
    [][/\ (pc = "sending" /\ ~ReturnsTrue) => file' = file
       /\ ReturnsFalse => Cursors(file') = state.last_exported_ids]_vars

\* A run failed after MAX_RETRIES requests while cursors of an earlier export
\* are stored.
C1_Witness ==
    /\ pc = "idle" /\ outcome = "failed" /\ posts = MAX_RETRIES
    /\ Cursors(file).log_lines > 0

\* C2: when a non-empty payload is acknowledged, the stored cursor of every
\* table is the highest id its query fetched in this run, or the cursor
\* loaded at the start of the run when it fetched nothing.
C2_CommitIsHighWaterMark ==
    [][(ReturnsTrue /\ posts' = posts + 1) =>
         \A t \in Tables :
            Cursors(file')[t] = SetMax({state.last_exported_ids[t]} \cup fetched[t])]_vars

\* The second acknowledged run has returned: log_lines is at 2, map_history
\* at 1 and the tables without rows are still at 0.
C2_Witness ==
    /\ pc = "idle" /\ outcome = "success" /\ posts > 0
    /\ load_sync_state(file).export_count = 2
    /\ Cursors(file).log_lines = 2
    /\ Cursors(file).player_sessions = 0
    /\ Cursors(file).player_stats = 0
    /\ Cursors(file).map_history = 1

\* C3: every KILL / TEAM KILL log line, map and player stat of an enabled
\* server whose id is at most the stored cursor of its table was in an
\* acknowledged payload.
C3_NoDataLoss ==
    /\ \A i \in KillLogs : i <= Cursors(file).log_lines => i \in delivered.log_lines
    /\ \A i \in EnabledMaps : i <= Cursors(file).map_history => i \in delivered.map_history
    /\ \A i \in EnabledStats : i <= Cursors(file).player_stats => i \in delivered.player_stats

\* The log_lines cursor passed a row that is not exported (another type or
\* another server) and the exported rows below it were all delivered.
C3_Witness ==
    /\ Cursors(file).log_lines = 3
    /\ delivered.log_lines = {1, 3}
    /\ Cursors(file).map_history = 0

\* C4: no step lowers the stored cursor of any table.
C4_CursorsNeverDecrease ==
    [][\A t \in Tables : Cursors(file')[t] >= Cursors(file)[t]]_vars

\* Two exports were committed, the second on top of the first.
C4_Witness ==
    /\ load_sync_state(file).export_count = 2
    /\ Cursors(file).map_history = 2
    /\ Cursors(file).log_lines = 0

\* C5: the stored cursor of every table is 0 or the highest id among the
\* records delivered for that table.
C5_CursorIsMaxDelivered ==
    \A t \in Tables : Cursors(file)[t] = SetMax(delivered[t])

\* C6: with an empty payload send_to_external_db issues no request, returns
\* True and leaves the state file alone.
C6_ZeroDeltaShortCircuit ==
    [][(pc = "sending" /\ data = EmptyData /\ <<pc, posts>>' # <<pc, posts>>) =>
         (posts' = 0 /\ ReturnsTrue /\ file' = file)]_vars

\* After an earlier export a run found nothing new and returned True without
\* a request.
C6_Witness ==
    /\ pc = "idle" /\ outcome = "success" /\ posts = 0
    /\ file.exists /\ RowCount > 0

\* C7: no session with a NULL end is in the payload, and the high-water mark
\* of get_player_sessions is at least the id of every fetched session row.
C7_OpenSessionsSkippedButCounted ==
    pc = "sending" =>
        /\ \A i \in 1..Len(data.player_sessions) : data.player_sessions[i].end # NULL
        /\ \A id \in fetched.player_sessions :
               new_state.last_exported_ids.player_sessions >= id

\* A run fetched an open session after a closed one: the closed one is in
\* the payload, the open one only in the high-water mark.
C7_Witness ==
    /\ pc = "sending"
    /\ fetched.player_sessions = {1, 2}
    /\ Ids(data.player_sessions) = {1}
    /\ new_state.last_exported_ids.player_sessions = 2

\* The step of prepare_data_for_export.
Prepared == pc = "idle" /\ pc' = "sending"

EnabledRows(t) ==
    CASE t = "log_lines"       -> EnabledLogs
      [] t = "player_sessions" -> EnabledSessions
      [] t = "player_stats"    -> EnabledStats
      [] t = "map_history"     -> EnabledMaps

ExportableRows(t) == IF t = "log_lines" THEN KillLogs ELSE EnabledRows(t)

\* C10 as claimed: the high-water mark of every extractor is at least
\* since_id, and greater exactly when the table has a row of an enabled
\* server above since_id.
C10_Original ==
    [][Prepared =>
         \A t \in Tables :
            LET since_id == state'.last_exported_ids[t]
                mark     == new_state'.last_exported_ids[t]
            IN /\ mark >= since_id
               /\ mark > since_id <=> \E i \in EnabledRows(t) : i > since_id]_vars

\* C10 amended: greater exactly when the query did not raise and the table
\* has a row above since_id that the query selects (enabled server; for
\* log_lines also of type KILL or TEAM KILL).
C10_HighWaterMark ==
    [][Prepared =>
         \A t \in Tables :
            LET since_id == state'.last_exported_ids[t]
                mark     == new_state'.last_exported_ids[t]
            IN /\ mark >= since_id
               /\ mark > since_id <=>
                     (t \notin qfail' /\ \E i \in ExportableRows(t) : i > since_id)]_vars

\* A run in which no query raised left the log_lines mark at since_id
\* although an enabled server has a newer log line of another type, and
\* moved the map_history mark.
C10_Witness ==
    /\ pc = "sending" /\ qfail = {}
    /\ new_state.last_exported_ids.log_lines = state.last_exported_ids.log_lines
    /\ \E i \in EnabledLogs : /\ i > state.last_exported_ids.log_lines
                              /\ log_lines[i].type = "CHAT"
    /\ new_state.last_exported_ids.map_history > state.last_exported_ids.map_history

\* A run fetched session i and left it out of the payload: it was open.
SkippedOpen(i) ==
    /\ pc = "sending"
    /\ i \in fetched.player_sessions
    /\ i \notin Ids(data.player_sessions)

InPayload(i) == pc = "sending" /\ i \in Ids(data.player_sessions)

\* C8: a session a run skipped as open and that is closed later is in the
\* payload of a later run.
C8_OpenSessionsDeferred ==
    \A i \in 1..MaxRows :
        [](SkippedOpen(i) => ([](i \in 1..Len(player_sessions) => player_sessions[i].end = NULL)
                                \/ <>InPayload(i)))

\* C9: when the process is terminated during save_sync_state, a later
\* load_sync_state returns the state loaded at the start of the run or the
\* state being saved.
C9_AtomicSave ==
    [][(pc = "saving" /\ pc' = "idle" /\ outcome' = "terminated") =>
         load_sync_state(file') \in {state, save_sync_state(new_state).content}]_vars

\* The batch limit of a table's query.
BatchLimit(t) ==
    CASE t = "log_lines"       -> BATCH_SIZE_LOG_LINES
      [] t = "player_sessions" -> BATCH_SIZE_PLAYER_SESSIONS
      [] t = "player_stats"    -> BATCH_SIZE_PLAYER_STATS
      [] t = "map_history"     -> BATCH_SIZE_MAPS

\* The n lowest ids of S above since_id.
LowestAbove(S, since_id, n) ==
    {i \in S : i > since_id /\ Cardinality({j \in S : j > since_id /\ j < i}) < n}

\* The records of a payload that come from table t.
PayloadOf(d, t) == IF t = "map_history" THEN d.maps ELSE d[t]

\* The rows of table t a query on since_id returns that become records:
\* all of them, but for player_sessions only the closed ones.
RecordedRows(t, rows) ==
    IF t = "player_sessions" /\ EXPORT_ONLY_CLOSED_SESSIONS
    THEN {i \in rows : player_sessions[i].end # NULL}
    ELSE rows

\* C11: in a run in which the queries of some tables raise, each of those
\* tables contributes no record and its mark is since_id, every other table
\* contributes the rows and the mark of its own query, and an acknowledged
\* delivery stores the marks of the tables that worked and leaves the cursor
\* of the tables that raised as loaded.
C11_FailureIsolation ==
    [][/\ Prepared =>
            \A t \in Tables :
               LET since_id == state'.last_exported_ids[t]
                   mark     == new_state'.last_exported_ids[t]
                   rows     == LowestAbove(ExportableRows(t), since_id, BatchLimit(t))
               IN IF t \in qfail'
                  THEN PayloadOf(data', t) = <<>> /\ mark = since_id
                  ELSE /\ Ids(PayloadOf(data', t)) = RecordedRows(t, rows)
                       /\ mark = SetMax({since_id} \cup rows)
       /\ (ReturnsTrue /\ posts' = posts + 1) =>
            \A t \in Tables :
               Cursors(file')[t] = IF t \in qfail THEN state.last_exported_ids[t]
                                   ELSE new_state.last_exported_ids[t]]_vars

\* The log_lines query of a run raised although a kill of an enabled server
\* is waiting, and the map_history query of the same run returned its row.
C11_Witness ==
    /\ pc = "sending" /\ qfail = {"log_lines"}
    /\ \E i \in KillLogs : i > state.last_exported_ids.log_lines
    /\ data.log_lines = <<>>
    /\ new_state.last_exported_ids.log_lines = state.last_exported_ids.log_lines
    /\ Len(data.maps) = 1
    /\ new_state.last_exported_ids.map_history > state.last_exported_ids.map_history

\* C12: with a payload that is not empty send_to_external_db returns, it
\* posts at most MAX_RETRIES times, it returns with the first attempt that is
\* acknowledged, and it returns False exactly when it posted MAX_RETRIES
\* times and no attempt was acknowledged (the state was not stamped and saved).
C12_BoundedRetries ==
    /\ [](posts <= MAX_RETRIES)
    /\ [][/\ (pc = "sending" /\ total_new(data) > 0 /\ pc' = "idle") =>
               /\ posts' = posts + 1
               /\ outcome' \in {"failed", "success"}
               /\ (outcome' = "failed") <=> (file' = file /\ delivered' = delivered)
               /\ (outcome' = "failed") => posts' = MAX_RETRIES
          /\ (pc = "sending" /\ posts' = posts + 1 /\ file' # file) =>
               pc' = "idle" /\ outcome' = "success"]_vars
    /\ (pc = "sending" /\ total_new(data) > 0) ~> (pc = "idle")

\* send_to_external_db returned False after MAX_RETRIES requests.
C12_Witness ==
    pc = "idle" /\ outcome = "failed" /\ posts = MAX_RETRIES /\ file = NoFile

\* C13: a request that is not acknowledged while attempts remain, the 200
\* response that says success: false among them, writes nothing and is
\* followed by another attempt with the same payload and marks; in a run that
\* recorded such a 200 response nothing is committed yet, an attempt remains,
\* and an acknowledgement then saves the marks of the run with last_error
\* cleared.
C13_ExplicitFailureRetried ==
    [][/\ (pc = "sending" /\ posts' = posts + 1 /\ attempt < MAX_RETRIES
             /\ file' = file) =>
            /\ pc' = "sending" /\ attempt' = attempt + 1
            /\ data' = data
            /\ new_state'.last_exported_ids = new_state.last_exported_ids
       /\ (pc = "sending" /\ new_state.last_error = "api_error") =>
            /\ 1 <= posts /\ posts = attempt - 1 /\ attempt <= MAX_RETRIES
            /\ Cursors(file) = state.last_exported_ids
            /\ \A t \in Tables :
                  \A i \in delivered[t] : i <= state.last_exported_ids[t]
            /\ ReturnsTrue =>
                 /\ Cursors(file') = new_state.last_exported_ids
                 /\ load_sync_state(file').last_error = "null"
                 /\ load_sync_state(file').export_count = state.export_count + 1
                 /\ delivered' = Acknowledge(data)]_vars

\* The first request of a run came back as 200 with success: false, the run
\* is about to post again, and its marks are ahead of the file.
C13_Witness ==
    /\ pc = "sending" /\ attempt = 2 /\ posts = 1
    /\ new_state.last_error = "api_error"
    /\ new_state.last_exported_ids # Cursors(file)

\* get_export_status: what the state file holds, as load_sync_state reads it.
get_export_status(f) ==
    LET s == load_sync_state(f)
    IN [last_exported_ids |-> s.last_exported_ids,
        export_count      |-> s.export_count,
        last_export       |-> s.last_export_time,
        last_success      |-> s.last_success,
        last_error        |-> s.last_error,
        total_exported    |-> s.total_exported]

\* C14: after a run whose delivery failed, get_export_status reports a
\* last_error that describes the failure, and the cursors of the file are
\* the ones the run loaded.
C14_FailureIsReported ==
    [][ReturnsFalse =>
          /\ get_export_status(file').last_error # "null"
          /\ get_export_status(file').last_exported_ids = state.last_exported_ids]_vars

\* The other value of the end column: a timestamp for NULL, NULL for a
\* timestamp.
OtherEnd(end) == IF end = NULL THEN Time ELSE NULL

\* C15: the map_external_id of every map record of a payload is the value of
\* create_map_external_id at the record's server name, id, start, end and
\* map name, equal inputs in one payload give equal ids, and the id of the
\* same match with its end changed between NULL ("ongoing") and a timestamp
\* is a different one.
C15_ExternalIdDependsOnEnd ==
    pc = "sending" =>
      \A k \in 1..Len(data.maps) :
         LET m == data.maps[k]
             changed == create_map_external_id(m.server_name, m.id, MapStart(m.id),
                                               OtherEnd(m.end), MapName(m.id))
         IN /\ m.map_external_id =
                 create_map_external_id(m.server_name, m.id, MapStart(m.id),
                                        m.end, MapName(m.id))
            /\ m.map_external_id # changed
            /\ \A l \in 1..Len(data.maps) :
                  (data.maps[l].id = m.id /\ data.maps[l].end = m.end
                     /\ data.maps[l].server_name = m.server_name)
                  => data.maps[l].map_external_id = m.map_external_id

\* A payload with the record of a match that is going on and the record of a
\* match that has ended.
C15_Witness ==
    /\ pc = "sending"
    /\ \E k, l \in 1..Len(data.maps) :
          data.maps[k].end = NULL /\ data.maps[l].end # NULL

\* C16: with serialized runs and no reset, no payload holds a row that was in
\* the payload of an earlier run whose delivery was acknowledged and saved.
C16_DeliveredRowsNotResent ==
    pc = "sending" =>
      \A t \in Tables : Ids(PayloadOf(data, t)) \cap delivered[t] = {}

\* A run that sends a session and a kill after an earlier run delivered a
\* session.
C16_Witness ==
    /\ pc = "sending"
    /\ delivered.player_sessions # {} /\ data.player_sessions # <<>>
    /\ data.log_lines # <<>>

\* C17: when its query succeeds, every extractor returns at most its batch
\* limit of records, in ascending order of id, and the rows it scanned are
\* the batch-limit lowest-id rows its WHERE clause selects above since_id: no
\* selected row between since_id and the returned mark was left unscanned.
C17_BatchIsLowestEligible ==
    [][(Prepared /\ qfail' = {}) =>
         \A t \in Tables :
            LET since_id == state'.last_exported_ids[t]
                mark     == new_state'.last_exported_ids[t]
                records  == PayloadOf(data', t)
            IN /\ Len(records) <= BatchLimit(t)
               /\ Cardinality(fetched'[t]) <= BatchLimit(t)
               /\ \A k \in 1..(Len(records) - 1) : records[k].id < records[k + 1].id
               /\ Ids(records) \subseteq fetched'[t]
               /\ fetched'[t] =
                    LowestAbove(ExportableRows(t), since_id, BatchLimit(t))
               /\ \A i \in ExportableRows(t) :
                     (since_id < i /\ i <= mark) => i \in fetched'[t]]_vars

\* Three kills are waiting and the run took the two with the lowest ids.
C17_Witness ==
    /\ pc = "sending"
    /\ KillLogs = {1, 2, 3}
    /\ state.last_exported_ids.log_lines = 0
    /\ Ids(data.log_lines) = {1, 2}
    /\ new_state.last_exported_ids.log_lines = 2

\* C18: a run that finds no state file, or a file whose text does not parse,
\* loads the default state (every cursor 0, both counters 0, no timestamps,
\* no error) and goes on to extract with it.
C18_DefaultStateOnBadFile ==
    [][/\ (pc = "idle" /\ ~(file.exists /\ file.valid)) => ENABLED Prepare({})
       /\ (Prepared /\ ~(file.exists /\ file.valid)) =>
            /\ state' = DefaultState
            /\ \A t \in Tables : /\ state'.last_exported_ids[t] = 0
                                 /\ state'.total_exported[t] = 0
            /\ state'.export_count = 0
            /\ state'.last_success = NULL /\ state'.last_export_time = NULL
            /\ new_state'.export_count = 1]_vars

\* A save was terminated while it was writing marks above 0, and the next
\* run has loaded the default state from what is left of the file.
C18_Witness ==
    /\ pc = "sending"
    /\ file.exists /\ ~file.valid
    /\ \E t \in Tables : file.content.last_exported_ids[t] > 0
    /\ state = DefaultState

\* C19: a run that loads a well-formed state file lacking some keys (a
\* cursor, last_exported_ids, export_count or total_exported) reads each of
\* them as its default, keeps the values of the keys that are there, and
\* assembles the payload and the prospective state.
C19_MissingFieldsDefaulted ==
    [][(pc = "idle" /\ missing_of(file) # {} /\ (pc' # pc \/ outcome' # outcome)) =>
         /\ Prepared
         /\ \A t \in Tables :
              state'.last_exported_ids[t] =
                 IF "last_exported_ids" \in file.missing \/ CursorKey(t) \in file.missing
                 THEN 0 ELSE file.content.last_exported_ids[t]
         /\ new_state'.export_count =
              IF "export_count" \in file.missing THEN 1
              ELSE file.content.export_count + 1]_vars

\* C20: whenever the payload a run assembled is empty, the marks of its
\* prospective state are the cursors it loaded, for all four tables.
C20_EmptyPayloadNoProgress ==
    (pc = "sending" /\ total_new(data) = 0) =>
       new_state.last_exported_ids = state.last_exported_ids

\* C21: the state file changes only in a step of a run that posts the run's
\* payload, gets it acknowledged and returns True; a run therefore writes it
\* at most once, and neither the preparation nor a refused attempt writes it.
C21_CommitAfterAcknowledgement ==
    [][file' # file =>
         /\ pc = "sending" /\ total_new(data) > 0
         /\ posts' = posts + 1
         /\ delivered' = Acknowledge(data)
         /\ pc' = "idle" /\ outcome' = "success"
         /\ file' = save_sync_state([new_state EXCEPT !.last_success = Time,
                                                      !.last_error = "null"])]_vars

\* A run whose first request was refused and whose second was acknowledged
\* has written the file.
C21_Witness ==
    /\ pc = "idle" /\ outcome = "success" /\ posts = 2
    /\ file.exists /\ file.valid /\ file.content.export_count = 1

\* The map row a map_external_id was made for.
MapRowOf(map_external_id) == map_external_id[3]

\* C22: every player-stat record of an acknowledged payload whose map row is
\* at or below the saved map_history cursor carries the map_external_id of
\* a map record that was delivered, also when the map was delivered while it
\* was going on and ended before the stat was extracted.
C22_StatsReferToDeliveredMap ==
    [][(ReturnsTrue /\ posts' = posts + 1) =>
         \A k \in 1..Len(data.player_stats) :
            LET stat == data.player_stats[k]
            IN MapRowOf(stat.map_external_id) <= Cursors(file').map_history
               => stat.map_external_id \in delivered'.map_external_ids]_vars

\* Every row of log_lines, map_history and player_stats that the queries
\* select and that is at or below the cursor of the file was in an
\* acknowledged payload.
NoRowBelowCursorUndelivered ==
    \A t \in {"log_lines", "map_history", "player_stats"} :
       \A i \in ExportableRows(t) : i <= Cursors(file)[t] => i \in delivered[t]

\* C23 as claimed: with two instances whose runs overlap, no selected row at
\* or below the cursor of the file is undelivered, and no save moves a
\* cursor of the file backwards.
C23_Original ==
    /\ []NoRowBelowCursorUndelivered
    /\ [][\A t \in Tables : Cursors(file')[t] >= Cursors(file)[t]]_vars

\* C23, amended: with two instances whose runs overlap, no selected row at or
\* below the cursor of the file is undelivered; a save stores the marks of
\* the run that saves, which are never below the cursors that run loaded but
\* can be below the cursors the other instance saved in between.
C23_OverlapOnlyDuplicates ==
    /\ []NoRowBelowCursorUndelivered
    /\ [][file' # file =>
            /\ Cursors(file') = new_state.last_exported_ids
            /\ \A t \in Tables : Cursors(file')[t] >= state.last_exported_ids[t]]_vars

\* Both instances loaded the cursors before either saved; one has saved, and
\* the other is about to post a payload with a session mark below the file's.
C23_Witness ==
    /\ pc = "sending" /\ total_new(data) > 0
    /\ state.last_exported_ids # Cursors(file)
    /\ new_state.last_exported_ids.player_sessions < Cursors(file).player_sessions

\* C24: the mark an extractor returns covers no fetched row of log_lines,
\* map_history or player_stats that it did not emit: when the transformation
\* of a fetched row raises, the mark is below the id of that row.
C24_MarkCoversOnlyEmittedRows ==
    [][Prepared =>
         \A t \in {"log_lines", "map_history", "player_stats"} :
            \A i \in fetched'[t] :
               i <= new_state'.last_exported_ids[t] => i \in Ids(PayloadOf(data', t))]_vars

\* C25: once no more rows are appended, with runs that keep being started
\* and deliveries that keep being acknowledged, the cursor of every table
\* ends up at the highest id its query selects and stays there, and from then
\* on every run finds nothing to send.
C25_BacklogDrains ==
    <>[](/\ \A t \in Tables : Cursors(file)[t] = SetMax(ExportableRows(t))
         /\ pc = "sending" => total_new(data) = 0)

\* C26: with serialized runs and no reset, total_exported of every table in
\* the file is the number of its records in the payloads acknowledged so
\* far; an acknowledged run adds one to export_count and the number of
\* records of its payload to each total, and no other step changes either.
C26_CounterAccounting ==
    /\ [](\A t \in Tables :
             get_export_status(file).total_exported[t] = Cardinality(delivered[t]))
    /\ [][LET before == get_export_status(file)
              after  == get_export_status(file')
          IN IF ReturnsTrue /\ posts' = posts + 1
             THEN /\ after.export_count = before.export_count + 1
                  /\ \A t \in Tables :
                        after.total_exported[t] =
                           before.total_exported[t] + Len(PayloadOf(data, t))
             ELSE /\ after.export_count = before.export_count
                  /\ after.total_exported = before.total_exported]_vars

\* Two runs were acknowledged, a kill in each, and a third run has failed.
C26_Witness ==
    /\ pc = "idle" /\ outcome = "failed"
    /\ get_export_status(file).export_count = 2
    /\ get_export_status(file).total_exported.log_lines = 2

\* C27: whenever send_to_external_db returns True after a request, the state
\* load_sync_state returns next has the marks of the run as cursors, also
\* when the write in save_sync_state failed.
C27_SuccessMeansPersisted ==
    [][(ReturnsTrue /\ posts' = posts + 1) =>
         load_sync_state(file').last_exported_ids = new_state.last_exported_ids]_vars
====
